---- MODULE Spec2Model ----
(***************************************************************************)
(* A model of challenges/3-sentinel-maps/vegetation-prediction.ipynb: the  *)
(* split catalog read by Dataloader.__init__, the tile Dataset, the three  *)
(* DataLoader objects the data module hands out, the CNN_Regression        *)
(* network and its step methods, the trainer.fit cell, and the cell that   *)
(* locates or downloads the data.                                          *)
(*                                                                         *)
(* The notebook is a fill-in-the-blanks lab.  The bodies it leaves as TODO *)
(* are modelled as Python executes them: a method whose body ends in a     *)
(* comment returns None, and "loss = ..." binds the Ellipsis object.       *)
(***************************************************************************)
EXTENDS Naturals, Integers, Sequences, FiniteSets, TLC

VARIABLES
    split_file,   \* the table pd.read_csv returns: a sequence of rows
    seasons,      \* the seasons argument of Dataloader
    bands,        \* the bands argument of Dataloader
    batch_size,   \* the batch_size argument of Dataloader
    input_shape,  \* the input_shape argument of CNN_Regression
    disk,         \* the paths of the .tif files that exist under data_dir
    dl,           \* the Dataloader object (dl.built = FALSE before the cell ran)
    ret,          \* what the last Dataset call returned or raised
    it,           \* the DataLoader iterator currently in use
    net,          \* the CNN_Regression object
    step,         \* what the last step method or forward call did
    run,          \* the trainer.fit cell
    fs,           \* the directories the data-location cell looks at
    cell          \* the data-location cell

vars == <<split_file, seasons, bands, batch_size, input_shape, disk, dl, ret, it, net, step, run, fs, cell>>

(***************************************************************************)
(* Bounds of the model.                                                    *)
(***************************************************************************)
MaxRows == 3          \* rows of the split table in the catalog specification
MaxDataRows == 2      \* rows of the split table in the other specifications
MaxBatchSize == 2     \* largest batch_size drawn
MaxListLen == 2       \* longest seasons / bands list drawn
MaxChannels == 2      \* most input channels drawn in the network specification
MaxSideExtra == 3     \* image sides drawn: 46 .. 46 + MaxSideExtra, and 128
MaxN == 3             \* largest batch passed to forward and the step methods
MaxLoaderPasses == 3  \* loader passes one fit may make in the model
MaxCellRuns == 5      \* times the data-location cell is run

Ids == {"t1", "t2", "t3"}
SplitValues == {"train", "val", "test", "holdout"}
SplitNames == {"train", "val", "test"}
SeasonNames == {"spring", "summer"}
BandNames == {"B04", "B08"}
data_dir == "base"
DefaultShape == [c |-> 4, h |-> 128, w |-> 128]

(***************************************************************************)
(* Helpers on sequences.                                                   *)
(***************************************************************************)
Range(s) == {s[i] : i \in 1..Len(s)}

SeqsUpTo(S, n) == UNION {[1..k -> S] : k \in 0..n}

ListsUpTo(S, n) == UNION {[1..k -> S] : k \in 1..n}

RECURSIVE Concat(_)
Concat(ss) == IF ss = <<>> THEN <<>> ELSE Head(ss) \o Concat(Tail(ss))

Rows == [identifier : Ids, split : SplitValues]

(***************************************************************************)
(* Dataloader.__init__: the three id lists.                                *)
(*   self.split_file[self.split_file['split'] == s]['identifier'].tolist() *)
(* keeps the rows whose split equals s, in table order, and takes their    *)
(* identifier column.                                                      *)
(***************************************************************************)
RECURSIVE FilesOf(_, _)
FilesOf(table, s) ==
    IF table = <<>> THEN <<>>
    ELSE IF Head(table).split = s
         THEN <<Head(table).identifier>> \o FilesOf(Tail(table), s)
         ELSE FilesOf(Tail(table), s)

TrainFiles(table) == FilesOf(table, "train")

ValFiles(table) == FilesOf(table, "val")

TestFilesCopyPaste(table) == FilesOf(table, "val")

TestFiles(table) == FilesOf(table, "test")

(***************************************************************************)
(* Dataset.__init__: the channel names, season-major.                      *)
(*   [f"{season}_{band}" for season in seasons for band in bands]          *)
(***************************************************************************)
S2BandsBandMajor(ss, bs) ==
    [k \in 1..(Len(ss) * Len(bs)) |->
        ss[((k - 1) % Len(ss)) + 1] \o "_" \o bs[((k - 1) \div Len(ss)) + 1]]

S2Bands(ss, bs) ==
    [k \in 1..(Len(ss) * Len(bs)) |->
        ss[((k - 1) \div Len(bs)) + 1] \o "_" \o bs[((k - 1) % Len(bs)) + 1]]

NewDataset(files, ss, bs) ==
    [data_dir  |-> data_dir,
     files     |-> files,
     seasons   |-> ss,
     bands     |-> bs,
     s2_path   |-> data_dir \o "/sentinel2-2020",
     veg_path  |-> data_dir \o "/vegetation-2020",
     s2_bands  |-> S2Bands(ss, bs),
     veg_bands |-> <<"Percent_Tree_Cover_2020">>]

NewDataloader(table, ss, bs, n) ==
    [built         |-> TRUE,
     data_dir      |-> data_dir,
     split_file    |-> table,
     seasons       |-> ss,
     bands         |-> bs,
     batch_size    |-> n,
     train_files   |-> TrainFiles(table),
     val_files     |-> ValFiles(table),
     test_files    |-> TestFiles(table),
     train_dataset |-> NewDataset(TrainFiles(table), ss, bs),
     val_dataset   |-> NewDataset(ValFiles(table), ss, bs),
     test_dataset  |-> NewDataset(TestFiles(table), ss, bs)]

DatasetOf(d, s) ==
    CASE s = "train" -> d.train_dataset
      [] s = "val"   -> d.val_dataset
      [] s = "test"  -> d.test_dataset

\* Dataset.__len__
DatasetLen(ds) == Len(ds.files)

S2PathOf(id) == data_dir \o "/sentinel2-2020" \o "/" \o id \o ".tif"

VegPathOf(id) == data_dir \o "/vegetation-2020" \o "/" \o id \o ".tif"

AllPaths == {S2PathOf(id) : id \in Ids} \cup {VegPathOf(id) : id \in Ids}

(***************************************************************************)
(* Dataset.__getitem__(idx), idx counted from 0 as in Python.  The two     *)
(* paths are compiled from self.files[idx]; an idx past the end of the     *)
(* list raises IndexError there.  Nothing is opened and the body ends in   *)
(* comments, so the call returns None whatever the disk holds.             *)
(***************************************************************************)
GetItemResult(ds, s, idx) ==
    IF idx >= Len(ds.files)
    THEN [op |-> "getitem", split |-> s, idx |-> idx, outcome |-> "IndexError"]
    ELSE [op       |-> "getitem",
          split    |-> s,
          idx      |-> idx,
          outcome  |-> "returned",
          s2_path  |-> ds.s2_path \o "/" \o ds.files[idx + 1] \o ".tif",
          veg_path |-> ds.veg_path \o "/" \o ds.files[idx + 1] \o ".tif",
          kind     |-> "None"]

(***************************************************************************)
(* The three loaders.  Each is DataLoader(dataset, batch_size, shuffle)    *)
(* with every other argument at its default: one process, the default      *)
(* collate function, drop_last = False.                                    *)
(***************************************************************************)
TrainShuffle == TRUE

TrainDataloader(d) ==
    [split |-> "train", dataset |-> d.train_dataset,
     batch_size |-> d.batch_size, shuffle |-> TrainShuffle]

ValDataloader(d) ==
    [split |-> "val", dataset |-> d.val_dataset,
     batch_size |-> d.batch_size, shuffle |-> FALSE]

TestDataloader(d) ==
    [split |-> "test", dataset |-> d.test_dataset,
     batch_size |-> d.batch_size, shuffle |-> FALSE]

LoaderOf(d, s) ==
    CASE s = "train" -> TrainDataloader(d)
      [] s = "val"   -> ValDataloader(d)
      [] s = "test"  -> TestDataloader(d)

\* The index orders a loader's sampler may produce: 0 .. n-1 in order without
\* shuffling, any permutation of them with it.
IndexPermutations(n) ==
    {p \in [1..n -> 0..(n - 1)] : \A i, j \in 1..n : p[i] = p[j] => i = j}

SamplerOrders(loader) ==
    IF loader.shuffle
    THEN IndexPermutations(DatasetLen(loader.dataset))
    ELSE {[i \in 1..DatasetLen(loader.dataset) |-> i - 1]}

\* What building the loader can do.  With shuffle = True and an empty dataset
\* the sampler's constructor, depending on the library's version, raises
\* ValueError or accepts the dataset.
LoaderOutcomes(loader) ==
    IF loader.shuffle /\ DatasetLen(loader.dataset) = 0
    THEN {"ok", "ValueError"}
    ELSE {"ok"}

Min(a, b) == IF a < b THEN a ELSE b

\* The default collate function stacks tensors and numbers; it raises
\* TypeError on a batch that holds None.
DefaultCollate(items) ==
    IF \E k \in 1..Len(items) : items[k].kind = "None"
    THEN [ok |-> FALSE, error |-> "TypeError"]
    ELSE [ok |-> TRUE, error |-> "none"]

\* iter(loader), with the sampler's order drawn.
NewIterator(loader, order) ==
    [active  |-> TRUE,
     split   |-> loader.split,
     loader  |-> loader,
     order   |-> order,
     pos     |-> 0,
     yielded |-> <<>>,
     status  |-> "iterating",
     error   |-> "none"]

FailedLoader(loader, e) ==
    [active  |-> TRUE,
     split   |-> loader.split,
     loader  |-> loader,
     order   |-> <<>>,
     pos     |-> 0,
     yielded |-> <<>>,
     status  |-> "error",
     error   |-> e]

\* next(iterator): the next batch_size indices of the order (fewer at the end),
\* dataset[i] for each of them, then the collate function; StopIteration when
\* no index is left.  An exception of __getitem__ or of the collate function
\* leaves the iterator.
NextOf(i) ==
    LET n == Len(i.order)
        last == Min(i.pos + i.loader.batch_size, n)
        idxs == SubSeq(i.order, i.pos + 1, last)
        items == [k \in 1..Len(idxs) |->
                    GetItemResult(i.loader.dataset, i.split, idxs[k])]
        batch == DefaultCollate(items)
    IN  IF i.pos >= n
        THEN [i EXCEPT !.status = "exhausted"]
        ELSE IF batch.ok
             THEN [i EXCEPT !.pos = last, !.yielded = Append(@, idxs)]
             ELSE [i EXCEPT !.status = "error", !.error = batch.error]

(***************************************************************************)
(* CNN_Regression.  A tensor is modelled by its shape (n, c, h, w); a      *)
(* layer that rejects its input gives BadTensor (RuntimeError).            *)
(***************************************************************************)
BadTensor == [ok |-> FALSE, n |-> 0, c |-> 0, h |-> 0, w |-> 0]

Tensor(n, c, h, w) == [ok |-> TRUE, n |-> n, c |-> c, h |-> h, w |-> w]

\* nn.Conv2d(in_c, out_c, k, stride), no padding: floor((side - k) / stride) + 1.
Conv2d(x, in_c, out_c, k, stride) ==
    IF ~x.ok \/ x.c # in_c \/ x.h < k \/ x.w < k
    THEN BadTensor
    ELSE Tensor(x.n, out_c, ((x.h - k) \div stride) + 1, ((x.w - k) \div stride) + 1)

\* nn.MaxPool2d(kernel_size = k): stride k, floor(side / k); an empty output
\* is an error.
MaxPool2d(x, k) ==
    IF ~x.ok \/ x.h < k \/ x.w < k
    THEN BadTensor
    ELSE Tensor(x.n, x.c, x.h \div k, x.w \div k)

\* F.relu keeps the shape.
Relu(x) == x

\* CNN_Regression.feature_extractor
FeatureExtractor(m, x) ==
    LET x1 == Relu(Conv2d(x, m.input_channels, 32, 3, 1))
        x2 == MaxPool2d(Relu(Conv2d(x1, 32, 32, 3, 2)), 2)
        x3 == Relu(Conv2d(x2, 32, 64, 3, 2))
        x4 == MaxPool2d(Relu(Conv2d(x3, 64, 64, 3, 2)), 2)
    IN  x4

\* x.view(n, -1).size(1)
FlatWidth(x) == x.c * x.h * x.w

\* the flattened size taken without the last axis
GetOutputShapeDropsAxis(m, shape) ==
    LET f == FeatureExtractor(m, Tensor(1, shape.c, shape.h, shape.w))
    IN  f.c * f.h

\* CNN_Regression._get_output_shape: a batch of one random input of the given
\* shape through the feature extractor, flattened.
GetOutputShape(m, shape) ==
    FlatWidth(FeatureExtractor(m, Tensor(1, shape.c, shape.h, shape.w)))

\* CNN_Regression.__init__.  When the feature extractor rejects the probe
\* input the constructor raises and no object exists.
NewNet(shape, lr, out_dim) ==
    LET m0 == [input_shape |-> shape, input_channels |-> shape.c]
        probe == FeatureExtractor(m0, Tensor(1, shape.c, shape.h, shape.w))
        hidden_dim == GetOutputShape(m0, shape)
    IN  IF ~probe.ok
        THEN [built |-> FALSE, status |-> "RuntimeError"]
        ELSE [built          |-> TRUE,
              status         |-> "ok",
              input_shape    |-> shape,
              input_channels |-> shape.c,
              output_dim     |-> out_dim,
              learning_rate  |-> lr,
              hidden_dim     |-> hidden_dim,
              fc1            |-> <<hidden_dim, 512>>,
              fc2            |-> <<512, 256>>,
              fc3            |-> <<256, 128>>,
              output_layer   |-> <<128, out_dim>>,
              optimizer_steps |-> 0]

\* CNN_Regression.forward: the features flattened to (n, width); the
\* regression head is left as a TODO, so the flattened features are returned.
Forward(m, x) ==
    LET f == FeatureExtractor(m, x)
    IN  IF ~f.ok
        THEN [outcome |-> "RuntimeError", out_shape |-> <<>>]
        ELSE [outcome |-> "returned", out_shape |-> <<f.n, FlatWidth(f)>>]

\* CNN_Regression.compute_loss: unpacks the batch and returns the Ellipsis
\* that "loss = ..." binds; forward and the criterion are not called.
ComputeLoss(m, batch) ==
    [loss |-> "Ellipsis", predictions |-> "Ellipsis",
     forward_calls |-> 0, criterion_calls |-> 0]

\* self.log(name, value, ...) belongs to the library: without a trainer it
\* warns and returns, and a value that is no number or tensor may be refused.
LogOutcomes(value) ==
    IF value = "Ellipsis" THEN {"returned", "ValueError"} ELSE {"returned"}

\* training_step / validation_step / test_step: one compute_loss call, one
\* self.log call, the loss returned.  None of them touches a parameter.
StepResult(m, op, metric, batch, log_outcome) ==
    LET l == ComputeLoss(m, batch)
    IN  [op                 |-> op,
         n                  |-> batch.n,
         compute_loss_calls |-> 1,
         forward_calls      |-> l.forward_calls,
         criterion_calls    |-> l.criterion_calls,
         logged             |-> <<metric, l.loss>>,
         loss               |-> l.loss,
         outcome            |-> log_outcome,
         steps_before       |-> m.optimizer_steps,
         steps_after        |-> m.optimizer_steps]

StepMetric(op) ==
    CASE op = "training_step"   -> "train_loss"
      [] op = "validation_step" -> "val_loss"
      [] op = "test_step"       -> "test_loss"

(***************************************************************************)
(* The data-location cell.  fs.jasmin: the JASMIN directory exists;        *)
(* fs.parent: ../../data exists; fs.local: ../../data/3-sentinel-maps      *)
(* exists; fs.extracted: how much of the archive is under it.              *)
(***************************************************************************)
JasminFs == [jasmin |-> TRUE, parent |-> FALSE, local |-> FALSE, extracted |-> "none"]

NoCell == [pc |-> "idle", runs |-> 0, data_path |-> "unset", attempted |-> FALSE,
           start |-> [jasmin |-> TRUE, local |-> FALSE], error |-> "none",
           history |-> <<>>]

\* data_path.mkdir() done only by the extraction
MkdirDeferred(f) == f

\* data_path.mkdir(): no parents = True, so it needs ../../data to exist
Mkdir(f) == [f EXCEPT !.local = TRUE]

\* A run of the cell has ended: its outcome joins the history.
EndRun(c, pc, outcome, error) ==
    [c EXCEPT !.pc = pc,
              !.error = error,
              !.history = Append(@, [outcome   |-> outcome,
                                     attempted |-> c.attempted,
                                     start     |-> c.start])]

NoDl == [built |-> FALSE]
NoRet == [op |-> "none"]
NoIt == [active |-> FALSE, status |-> "none"]
NoNet == [built |-> FALSE, status |-> "none"]
NoStep == [op |-> "none"]
NoRun == [pc |-> "idle"]

(***************************************************************************)
(* The cell "dl = Dataloader(...)".                                        *)
(***************************************************************************)
DataloaderInit ==
    /\ ~dl.built
    /\ dl' = NewDataloader(split_file, seasons, bands, batch_size)
    /\ UNCHANGED <<fs, cell, split_file, seasons, bands, batch_size, input_shape, disk, ret, it, net, step, run>>

\* len(dataset)
Len_(s) ==
    /\ dl.built
    /\ ret' = [op |-> "len", split |-> s, outcome |-> "returned",
               value |-> DatasetLen(DatasetOf(dl, s))]
    /\ UNCHANGED <<fs, cell, split_file, seasons, bands, batch_size, input_shape, disk, dl, it, net, step, run>>

\* dataset[idx] that consumes the id it serves (files.pop in place of files[idx])
GetItemPopping(s, idx) ==
    /\ dl.built
    /\ ret' = GetItemResult(DatasetOf(dl, s), s, idx)
    /\ dl' = IF idx >= DatasetLen(DatasetOf(dl, s)) THEN dl
             ELSE CASE s = "train" -> [dl EXCEPT !.train_files = Tail(@),
                                                 !.train_dataset.files = Tail(@)]
                    [] s = "val"   -> [dl EXCEPT !.val_files = Tail(@),
                                                 !.val_dataset.files = Tail(@)]
                    [] s = "test"  -> [dl EXCEPT !.test_files = Tail(@),
                                                 !.test_dataset.files = Tail(@)]
    /\ UNCHANGED <<fs, cell, split_file, seasons, bands, batch_size, input_shape, disk, it, net, step, run>>

\* dataset[idx]
GetItem(s, idx) ==
    /\ dl.built
    /\ ret' = GetItemResult(DatasetOf(dl, s), s, idx)
    /\ UNCHANGED <<fs, cell, split_file, seasons, bands, batch_size, input_shape, disk, dl, it, net, step, run>>

(***************************************************************************)
(* The catalog specification: every split table of at most MaxRows rows.   *)
(***************************************************************************)
InitCatalog ==
    /\ split_file \in SeqsUpTo(Rows, MaxRows)
    /\ seasons = <<"spring", "summer">>
    /\ bands = <<"B04", "B08">>
    /\ batch_size = 1
    /\ input_shape = DefaultShape
    /\ disk = AllPaths
    /\ dl = NoDl
    /\ ret = NoRet
    /\ it = NoIt
    /\ net = NoNet
    /\ step = NoStep
    /\ run = NoRun
    /\ fs = JasminFs
    /\ cell = NoCell

NextCatalog ==
    \/ DataloaderInit
    \/ \E s \in SplitNames : Len_(s)
    \/ \E s \in SplitNames : \E idx \in 0..MaxRows : GetItem(s, idx)

SpecCatalog == InitCatalog /\ [][NextCatalog]_vars

(***************************************************************************)
(* C1.                                                                     *)
(***************************************************************************)
TableIds(table) == {table[i].identifier : i \in 1..Len(table)}

\* The table is a mapping from tile id to one of train / val / test.
IsSplitAssignment(table) ==
    /\ \A i, j \in 1..Len(table) :
          table[i].identifier = table[j].identifier => i = j
    /\ \A i \in 1..Len(table) : table[i].split \in SplitNames

SplitsPartition(d) ==
    /\ Range(d.train_files) \cap Range(d.val_files) = {}
    /\ Range(d.train_files) \cap Range(d.test_files) = {}
    /\ Range(d.val_files) \cap Range(d.test_files) = {}
    /\ Range(d.train_files) \cup Range(d.val_files) \cup Range(d.test_files)
          = TableIds(d.split_file)

\* C1 as stated: for every split table, with rows of any split value and
\* identifiers that may repeat, train_files, val_files and test_files are
\* pairwise disjoint and their union is the set of all identifiers of the table.
C1_SplitsPartitionEveryTable == dl.built => SplitsPartition(dl)

\* C1 amended: when the identifiers of the table are pairwise distinct and
\* every split value is train, val or test, the three lists are pairwise
\* disjoint and their union is the set of all identifiers; for any table the
\* three lists together hold exactly the rows whose split value is one of the
\* three.
C1_SplitsPartitionAssignment ==
    dl.built =>
        /\ IsSplitAssignment(dl.split_file) => SplitsPartition(dl)
        /\ Len(dl.train_files) + Len(dl.val_files) + Len(dl.test_files)
              = Cardinality({i \in 1..Len(dl.split_file) :
                               dl.split_file[i].split \in SplitNames})

C1_Witness ==
    /\ dl.built
    /\ IsSplitAssignment(dl.split_file)
    /\ dl.train_files # <<>>
    /\ dl.val_files # <<>>
    /\ dl.test_files # <<>>

(***************************************************************************)
(* The dataset specification: split assignments of at most MaxDataRows     *)
(* rows, every non-empty seasons / bands list of at most MaxListLen names, and a     *)
(* disk on which the raster or the label file of tile t1 may be missing.   *)
(***************************************************************************)
AssignmentRows == [identifier : Ids, split : SplitNames]

Disks == {AllPaths \ missing : missing \in SUBSET {S2PathOf("t1"), VegPathOf("t1")}}

InitDataset ==
    /\ split_file \in SeqsUpTo(AssignmentRows, MaxDataRows)
    /\ seasons \in ListsUpTo(SeasonNames, MaxListLen)
    /\ bands \in ListsUpTo(BandNames, MaxListLen)
    /\ batch_size = 1
    /\ input_shape = DefaultShape
    /\ disk \in Disks
    /\ dl = NoDl
    /\ ret = NoRet
    /\ it = NoIt
    /\ net = NoNet
    /\ step = NoStep
    /\ run = NoRun
    /\ fs = JasminFs
    /\ cell = NoCell

NextDataset ==
    \/ DataloaderInit
    \/ \E s \in SplitNames : \E idx \in 0..MaxDataRows : GetItem(s, idx)

SpecDataset == InitDataset /\ [][NextDataset]_vars

\* The call dataset[idx] the claims C2 and C6 are about: idx in range(len(dataset)).
InRangeGetItem ==
    /\ dl.built
    /\ ret.op = "getitem"
    /\ ret.idx < DatasetLen(DatasetOf(dl, ret.split))

\* C2: for every tile id of the split assignment and every idx in
\* range(len(dataset)), __getitem__(idx) returns a pair (raster, label) whose
\* raster has len(seasons) * len(bands) channels and whose label is one finite
\* scalar.
C2_GetItemReturnsPair ==
    InRangeGetItem =>
        /\ ret.outcome = "returned"
        /\ ret.kind = "tuple"
        /\ ret.channels = Len(seasons) * Len(bands)
        /\ ret.label = "finite scalar"

\* C6: for every tile id of the split assignment whose raster file or label
\* file is absent, __getitem__ for that id fails with a file-not-found error
\* instead of returning a value.
C6_MissingFileFails ==
    (InRangeGetItem /\ (ret.s2_path \notin disk \/ ret.veg_path \notin disk))
        => ret.outcome = "FileNotFoundError"

(***************************************************************************)
(* Iterating a loader of the data module, as a for loop over               *)
(* dl.train_dataloader(), dl.val_dataloader() or dl.test_dataloader().     *)
(***************************************************************************)
IterLoader(s) ==
    /\ dl.built
    /\ it.status # "iterating"
    /\ \E outcome \in LoaderOutcomes(LoaderOf(dl, s)) :
         IF outcome = "ok"
         THEN \E order \in SamplerOrders(LoaderOf(dl, s)) :
                it' = NewIterator(LoaderOf(dl, s), order)
         ELSE it' = FailedLoader(LoaderOf(dl, s), outcome)
    /\ UNCHANGED <<fs, cell, split_file, seasons, bands, batch_size, input_shape, disk, dl, ret, net, step, run>>

NextBatch ==
    /\ it.active
    /\ it.status = "iterating"
    /\ it' = NextOf(it)
    /\ UNCHANGED <<fs, cell, split_file, seasons, bands, batch_size, input_shape, disk, dl, ret, net, step, run>>

InitLoader ==
    /\ split_file \in SeqsUpTo(AssignmentRows, MaxDataRows)
    /\ seasons = <<"spring", "summer">>
    /\ bands = <<"B04", "B08">>
    /\ batch_size \in 1..MaxBatchSize
    /\ input_shape = DefaultShape
    /\ disk = AllPaths
    /\ dl = NoDl
    /\ ret = NoRet
    /\ it = NoIt
    /\ net = NoNet
    /\ step = NoStep
    /\ run = NoRun
    /\ fs = JasminFs
    /\ cell = NoCell

NextLoader ==
    \/ DataloaderInit
    \/ \E s \in SplitNames : IterLoader(s)
    \/ NextBatch

SpecLoader == InitLoader /\ [][NextLoader]_vars

IsPermutation(order, n) ==
    /\ Len(order) = n
    /\ \A k \in 0..(n - 1) : \E i \in 1..n : order[i] = k

\* C7: the training loader yields its items in shuffled order and the
\* validation and test loaders yield theirs in the order of the split's id
\* list; a pass over a loader yields every item of its split exactly once, in
\* batches of at most batch_size items.
C7_EveryItemYieldedOnce ==
    (it.active /\ it.status # "iterating") =>
        /\ IsPermutation(Concat(it.yielded), DatasetLen(it.loader.dataset))
        /\ it.split # "train" =>
             Concat(it.yielded) = [i \in 1..DatasetLen(it.loader.dataset) |-> i - 1]
        /\ \A b \in 1..Len(it.yielded) : Len(it.yielded[b]) <= it.loader.batch_size

(***************************************************************************)
(* The network specification: the cell "model = CNN_Regression(...)" for   *)
(* every input shape drawn, then forward and the step methods called on    *)
(* batches of 1 .. MaxN items.                                             *)
(***************************************************************************)
default_output_dim == 1

Sides == {46 + k : k \in 0..MaxSideExtra} \cup {128}

Shapes == [c : 1..MaxChannels, h : Sides, w : Sides]

ModelInit ==
    /\ net = NoNet
    /\ net' = NewNet(input_shape, "lr", default_output_dim)
    /\ UNCHANGED <<fs, cell, split_file, seasons, bands, batch_size, input_shape, disk, dl, ret, it, step, run>>

\* model(x) for a batch x of n items of the given shape
ForwardCall(n, shape) ==
    /\ net.built
    /\ LET r == Forward(net, Tensor(n, shape.c, shape.h, shape.w))
       IN  step' = [op |-> "forward", n |-> n, in_shape |-> shape,
                    outcome |-> r.outcome, out_shape |-> r.out_shape]
    /\ UNCHANGED <<fs, cell, split_file, seasons, bands, batch_size, input_shape, disk, dl, ret, it, net, run>>

StepCall(op, n) ==
    /\ net.built
    /\ \E o \in LogOutcomes(ComputeLoss(net, [n |-> n]).loss) :
         step' = StepResult(net, op, StepMetric(op), [n |-> n], o)
    /\ UNCHANGED <<fs, cell, split_file, seasons, bands, batch_size, input_shape, disk, dl, ret, it, net, run>>

TrainingStep(n) == StepCall("training_step", n)

ValidationStep(n) == StepCall("validation_step", n)

TestStep(n) == StepCall("test_step", n)

InitModel ==
    /\ split_file = <<>>
    /\ seasons = <<"spring", "summer">>
    /\ bands = <<"B04", "B08">>
    /\ batch_size = 1
    /\ input_shape \in Shapes
    /\ disk = AllPaths
    /\ dl = NoDl
    /\ ret = NoRet
    /\ it = NoIt
    /\ net = NoNet
    /\ step = NoStep
    /\ run = NoRun
    /\ fs = JasminFs
    /\ cell = NoCell

NextModel ==
    \/ ModelInit
    \/ \E n \in 1..MaxN : \E shape \in Shapes : ForwardCall(n, shape)
    \/ \E n \in 1..MaxN : TrainingStep(n)
    \/ \E n \in 1..MaxN : ValidationStep(n)
    \/ \E n \in 1..MaxN : TestStep(n)

SpecModel == InitModel /\ [][NextModel]_vars

\* C9: forward applies the four convolutions with ReLU and the two max-pool
\* stages, flattens, and passes the result through the fully connected head:
\* for a batch of N inputs of input_shape it returns one scalar prediction per
\* input, that is an output of shape N x output_dim (N x 1 by default).
C9_ForwardReturnsOneScalarPerInput ==
    (net.built /\ step.op = "forward" /\ step.in_shape = net.input_shape) =>
        /\ step.outcome = "returned"
        /\ step.out_shape = <<step.n, net.output_dim>>

\* C3: every training batch gets exactly one loss computation followed by one
\* optimizer step, every validation batch one loss computation, and no
\* validation or test step changes the model parameters.  (Which batch is
\* processed when is the Trainer's business; what a step does with its batch
\* is decided by training_step, validation_step, test_step and compute_loss.)
C3_StepsComputeOneLoss ==
    (step.op \in {"training_step", "validation_step", "test_step"}) =>
        /\ step.compute_loss_calls = 1
        /\ step.forward_calls = 1
        /\ step.criterion_calls = 1
        /\ step.loss = "tensor"
        /\ step.op # "training_step" => step.steps_after = step.steps_before

(***************************************************************************)
(* The cell "trainer.fit(model, dl)".  The Trainer asks the data module    *)
(* for its training and validation loaders, pulls batches from them and    *)
(* hands each batch to training_step or validation_step.  How many passes  *)
(* it makes and in which order is the library's: the model lets it make up *)
(* to MaxLoaderPasses passes in any order.  Neither the step methods nor   *)
(* the cell has a try / except, so an exception raised while a batch is    *)
(* loaded or processed leaves trainer.fit and ends the cell.               *)
(***************************************************************************)
SkipFailedBatch(r, e) == r

Propagate(r, e) == [r EXCEPT !.pc = "aborted", !.error = e]

FitStepOf(s) == IF s = "train" THEN "training_step" ELSE "validation_step"

FitBegin ==
    /\ dl.built
    /\ net.built
    /\ run.pc = "idle"
    /\ run' = [pc |-> "fitting", passes |-> 0, batches |-> 0, error |-> "none"]
    /\ it' = NoIt
    /\ UNCHANGED <<fs, cell, split_file, seasons, bands, batch_size, input_shape, disk, dl, ret, net, step>>

FitOpenLoader(s) ==
    /\ run.pc = "fitting"
    /\ it.status \in {"none", "exhausted"}
    /\ run.passes < MaxLoaderPasses
    /\ \E outcome \in LoaderOutcomes(LoaderOf(dl, s)) :
         IF outcome = "ok"
         THEN /\ \E order \in SamplerOrders(LoaderOf(dl, s)) :
                   it' = NewIterator(LoaderOf(dl, s), order)
              /\ run' = [run EXCEPT !.passes = @ + 1]
         ELSE /\ it' = FailedLoader(LoaderOf(dl, s), outcome)
              /\ run' = Propagate([run EXCEPT !.passes = @ + 1], outcome)
    /\ UNCHANGED <<fs, cell, split_file, seasons, bands, batch_size, input_shape, disk, dl, ret, net, step>>

FitNextBatch ==
    /\ run.pc = "fitting"
    /\ it.status = "iterating"
    /\ LET nxt == NextOf(it)
           op == FitStepOf(it.split)
       IN  /\ it' = nxt
           /\ CASE nxt.status = "error" ->
                     /\ run' = Propagate(run, nxt.error)
                     /\ step' = step
                [] nxt.status = "exhausted" ->
                     /\ run' = run
                     /\ step' = step
                [] OTHER ->
                     \E o \in LogOutcomes(ComputeLoss(net, [n |-> nxt.pos - it.pos]).loss) :
                        /\ step' = StepResult(net, op, StepMetric(op),
                                              [n |-> nxt.pos - it.pos], o)
                        /\ run' = IF o = "returned"
                                  THEN [run EXCEPT !.batches = @ + 1]
                                  ELSE Propagate(run, o)
    /\ UNCHANGED <<fs, cell, split_file, seasons, bands, batch_size, input_shape, disk, dl, ret, net>>

FitEnd ==
    /\ run.pc = "fitting"
    /\ it.status = "exhausted"
    /\ run' = [run EXCEPT !.pc = "done"]
    /\ UNCHANGED <<fs, cell, split_file, seasons, bands, batch_size, input_shape, disk, dl, ret, it, net, step>>

InitTrain ==
    /\ split_file \in SeqsUpTo(AssignmentRows, MaxDataRows)
    /\ seasons = <<"spring", "summer">>
    /\ bands = <<"B04", "B08">>
    /\ batch_size \in 1..MaxBatchSize
    /\ input_shape = DefaultShape
    /\ disk = AllPaths
    /\ dl = NoDl
    /\ ret = NoRet
    /\ it = NoIt
    /\ net = NoNet
    /\ step = NoStep
    /\ run = NoRun
    /\ fs = JasminFs
    /\ cell = NoCell

NextTrain ==
    \/ DataloaderInit
    \/ ModelInit
    \/ FitBegin
    \/ \E s \in {"train", "val"} : FitOpenLoader(s)
    \/ FitNextBatch
    \/ FitEnd

SpecTrain == InitTrain /\ [][NextTrain]_vars

\* C5: a failure while a batch is loaded or processed propagates at once and
\* aborts the whole run: the exception reaches the cell unchanged, the failed
\* batch is neither delivered nor retried nor skipped, and after it no batch,
\* loader pass or step is executed.
C5_FailureAbortsRun ==
    /\ [](/\ (run.pc # "idle" /\ it.status = "error") =>
                (run.pc = "aborted" /\ run.error = it.error)
          /\ run.pc = "aborted" =>
                (it.status = "error" /\ run.error # "none"))
    /\ [][run.pc = "aborted" => UNCHANGED <<run, it, step, net, dl>>]_vars

C5_Witness ==
    /\ run.pc = "aborted"
    /\ run.error = "TypeError"
    /\ it.status = "error"
    /\ Len(it.order) > it.pos

(***************************************************************************)
(* The frame specification: after the data module is built, any sequence   *)
(* of len(dataset), dataset[idx], and passes over the three loaders.       *)
(***************************************************************************)
NextFrame ==
    \/ DataloaderInit
    \/ \E s \in SplitNames : Len_(s)
    \/ \E s \in SplitNames : \E idx \in 0..MaxDataRows : GetItem(s, idx)
    \/ \E s \in SplitNames : IterLoader(s)
    \/ NextBatch

SpecFrame == InitLoader /\ [][NextFrame]_vars

\* C11: loading items and building loaders never mutates shared data: once
\* the data module is built, no __len__, __getitem__, train_dataloader,
\* val_dataloader or test_dataloader call changes the split table, the three
\* id lists, or any dataset's files, seasons, bands and band-name list (all
\* fields of dl), nor the seasons and bands lists the caller passed in.
C11_LoadingMutatesNothing ==
    [][dl.built => UNCHANGED <<dl, split_file, seasons, bands>>]_vars

C11_Witness ==
    /\ dl.built
    /\ ret.op = "getitem"
    /\ ret.outcome = "returned"
    /\ it.active
    /\ it.split = "train"
    /\ it.status = "error"
    /\ dl = NewDataloader(split_file, seasons, bands, batch_size)

(***************************************************************************)
(* The shape specification: the network built for every input shape drawn, *)
(* then forward on batches of 1 .. MaxN items of the constructor's         *)
(* input_shape.                                                            *)
(***************************************************************************)
ForwardOnInputShape(n) == ForwardCall(n, input_shape)

NextShape ==
    \/ ModelInit
    \/ \E n \in 1..MaxN : ForwardOnInputShape(n)

SpecShape == InitModel /\ [][NextShape]_vars

\* C13: hidden_dim, the input width of fc1 computed at construction from a
\* batch of one item, equals the flattened feature width forward produces for
\* every batch of N >= 1 items of the constructor's input_shape; the width
\* does not depend on N.
C13_HiddenDimIsFlatWidth ==
    (net.built /\ step.op = "forward" /\ step.in_shape = net.input_shape) =>
        /\ step.outcome = "returned"
        /\ step.out_shape[1] = step.n
        /\ step.out_shape[2] = net.hidden_dim
        /\ net.fc1[1] = step.out_shape[2]

C13_Witness ==
    /\ net.built
    /\ step.op = "forward"
    /\ step.in_shape = net.input_shape
    /\ step.n > 1
    /\ step.outcome = "returned"
    /\ net.hidden_dim > 64

(***************************************************************************)
(* The index specification: every split table of at most MaxDataRows rows  *)
(* (rows of any split value, identifiers that may repeat) and every        *)
(* seasons / bands list of at most MaxListLen distinct names; then         *)
(* len(dataset) and dataset[idx] on the three datasets.                    *)
(***************************************************************************)
DistinctLists(S, n) ==
    {l \in ListsUpTo(S, n) : \A i, j \in 1..Len(l) : l[i] = l[j] => i = j}

InitIndex ==
    /\ split_file \in SeqsUpTo(Rows, MaxDataRows)
    /\ seasons \in DistinctLists(SeasonNames, MaxListLen)
    /\ bands \in DistinctLists(BandNames, MaxListLen)
    /\ batch_size = 1
    /\ input_shape = DefaultShape
    /\ disk = AllPaths
    /\ dl = NoDl
    /\ ret = NoRet
    /\ it = NoIt
    /\ net = NoNet
    /\ step = NoStep
    /\ run = NoRun
    /\ fs = JasminFs
    /\ cell = NoCell

NextIndex ==
    \/ DataloaderInit
    \/ \E s \in SplitNames : Len_(s)
    \/ \E s \in SplitNames : \E idx \in 0..MaxDataRows : GetItem(s, idx)

SpecIndex == InitIndex /\ [][NextIndex]_vars

\* The rows of the table that carry split value s, as row numbers.
RowsWith(table, s) == {i \in 1..Len(table) : table[i].split = s}

\* The row that is the k-th (from 1) of those carrying s, in table order.
KthRowWith(table, s, k) ==
    CHOOSE i \in RowsWith(table, s) :
        Cardinality({j \in RowsWith(table, s) : j <= i}) = k

\* C14: each dataset's length is the number of split-table rows carrying its
\* split value; index idx refers to the tile id at position idx of that
\* split's id list, in table order, for the raster path and for the label
\* path; and the channel names are season-major: the name at position
\* i * len(bands) + j is "<seasons[i]>_<bands[j]>".
C14_LengthIndexAndChannelOrder ==
    dl.built =>
        /\ \A s \in SplitNames :
             /\ DatasetLen(DatasetOf(dl, s)) = Cardinality(RowsWith(split_file, s))
             /\ Len(DatasetOf(dl, s).s2_bands) = Len(seasons) * Len(bands)
             /\ \A i \in 0..(Len(seasons) - 1) : \A j \in 0..(Len(bands) - 1) :
                  DatasetOf(dl, s).s2_bands[i * Len(bands) + j + 1]
                      = seasons[i + 1] \o "_" \o bands[j + 1]
        /\ ret.op = "len" => ret.value = Cardinality(RowsWith(split_file, ret.split))
        /\ ret.op = "getitem" =>
             IF ret.idx < Cardinality(RowsWith(split_file, ret.split))
             THEN LET id == split_file[KthRowWith(split_file, ret.split, ret.idx + 1)].identifier
                  IN  /\ ret.outcome = "returned"
                      /\ ret.s2_path = S2PathOf(id)
                      /\ ret.veg_path = VegPathOf(id)
             ELSE ret.outcome = "IndexError"

C14_Witness ==
    /\ dl.built
    /\ ret.op = "getitem"
    /\ ret.idx = 1
    /\ ret.outcome = "returned"
    /\ split_file[1].identifier # split_file[2].identifier
    /\ Len(seasons) = 2
    /\ Len(bands) = 2

(***************************************************************************)
(* The data-location cell, in the steps at which it touches the file       *)
(* system or the network.                                                  *)
(***************************************************************************)
OtherVars == <<split_file, seasons, bands, batch_size, input_shape, disk, dl, ret, it, net, step, run>>

\* The cell up to the download: the two exists() tests and mkdir().
CellBegin ==
    /\ cell.pc \in {"idle", "done", "failed"}
    /\ cell.runs < MaxCellRuns
    /\ LET c == [cell EXCEPT !.runs = @ + 1,
                             !.attempted = FALSE,
                             !.error = "none",
                             !.start = [jasmin |-> fs.jasmin, local |-> fs.local],
                             !.data_path = IF fs.jasmin THEN "jasmin" ELSE "local"]
       IN  CASE fs.jasmin ->
                  /\ cell' = EndRun(c, "done", "on JASMIN", "none")
                  /\ fs' = fs
             [] ~fs.jasmin /\ fs.local ->
                  /\ cell' = EndRun(c, "done", "local, no download", "none")
                  /\ fs' = fs
             [] ~fs.jasmin /\ ~fs.local /\ ~fs.parent ->
                  /\ cell' = EndRun(c, "failed", "mkdir failed", "FileNotFoundError")
                  /\ fs' = fs
             [] OTHER ->
                  /\ cell' = [c EXCEPT !.pc = "downloading"]
                  /\ fs' = Mkdir(fs)
    /\ UNCHANGED OtherVars

\* urllib.request.urlretrieve(url, tmp.name)
Download(ok) ==
    /\ cell.pc = "downloading"
    /\ LET c == [cell EXCEPT !.attempted = TRUE]
       IN  cell' = IF ok
                   THEN [c EXCEPT !.pc = "extracting"]
                   ELSE EndRun(c, "failed", "download failed", "URLError")
    /\ fs' = fs
    /\ UNCHANGED OtherVars

\* zipfile.ZipFile(tmp, 'r') and zip_ref.extractall(data_path)
Extract(ok) ==
    /\ cell.pc = "extracting"
    /\ IF ok
       THEN /\ fs' = [fs EXCEPT !.extracted = "all"]
            /\ cell' = [cell EXCEPT !.pc = "asserting"]
       ELSE /\ \E left \in {"none", "partial"} : fs' = [fs EXCEPT !.extracted = left]
            /\ cell' = EndRun(cell, "failed", "extraction failed", "BadZipFile")
    /\ UNCHANGED OtherVars

\* assert data_path.exists(), "Download failed!"
AssertExists ==
    /\ cell.pc = "asserting"
    /\ cell' = IF fs.local
               THEN EndRun(cell, "done", "downloaded", "none")
               ELSE EndRun(cell, "failed", "assertion failed", "AssertionError")
    /\ fs' = fs
    /\ UNCHANGED OtherVars

\* Between two runs of the cell the user creates ../../data, the directory
\* whose absence makes data_path.mkdir() fail.
MakeParent ==
    /\ cell.pc \in {"idle", "done", "failed"}
    /\ ~fs.parent
    /\ fs' = [fs EXCEPT !.parent = TRUE]
    /\ cell' = cell
    /\ UNCHANGED OtherVars

InitCell ==
    /\ split_file = <<>>
    /\ seasons = <<"spring", "summer">>
    /\ bands = <<"B04", "B08">>
    /\ batch_size = 1
    /\ input_shape = DefaultShape
    /\ disk = AllPaths
    /\ dl = NoDl
    /\ ret = NoRet
    /\ it = NoIt
    /\ net = NoNet
    /\ step = NoStep
    /\ run = NoRun
    /\ fs \in {f \in [jasmin : BOOLEAN, parent : BOOLEAN, local : BOOLEAN,
                      extracted : {"none", "partial", "all"}] :
                 /\ f.local => f.parent
                 /\ f.extracted # "none" => f.local}
    /\ cell = [NoCell EXCEPT !.start = [jasmin |-> fs.jasmin, local |-> fs.local]]

NextCell ==
    \/ CellBegin
    \/ \E ok \in BOOLEAN : Download(ok)
    \/ \E ok \in BOOLEAN : Extract(ok)
    \/ AssertExists
    \/ MakeParent

SpecCell == InitCell /\ [][NextCell]_vars

DownloadFailed(h) == h.outcome \in {"download failed", "extraction failed"}

\* C12: the download is attempted only when neither the JASMIN directory nor
\* the local directory exists at the start of the cell; the local directory is
\* made before the download and stays when the download or the extraction
\* fails, so every run of the cell after a failed download performs no
\* download and completes without error; and the final assertion holds
\* whenever it is reached.
C12_DownloadOnlyOnce ==
    /\ (cell.pc \in {"downloading", "extracting", "asserting"} \/ cell.attempted) =>
          (~cell.start.jasmin /\ ~cell.start.local)
    /\ \A i \in 1..Len(cell.history) :
          /\ cell.history[i].attempted =>
                (~cell.history[i].start.jasmin /\ ~cell.history[i].start.local)
          /\ cell.history[i].outcome # "assertion failed"
          /\ DownloadFailed(cell.history[i]) =>
                /\ fs.local
                /\ cell.pc \in {"done", "failed"}
                /\ cell.pc = "failed" => i = Len(cell.history)
                /\ \A j \in (i + 1)..Len(cell.history) :
                      /\ cell.history[j].outcome = "local, no download"
                      /\ ~cell.history[j].attempted
    /\ cell.pc = "asserting" => fs.local

C12_Witness ==
    /\ Len(cell.history) >= 2
    /\ DownloadFailed(cell.history[1])
    /\ cell.history[2].outcome = "local, no download"
    /\ cell.pc = "done"

====
